---- MODULE Spec2Model ----
(***************************************************************************)
(* Model of src/app.py: a Streamlit script that resolves an API key,       *)
(* extracts text from an uploaded PDF (pypdf, then pdfplumber), composes a *)
(* prompt and submits one chat-completion request per button click.        *)
(*                                                                         *)
(* Python strings are sequences of one-character strings.  A long literal  *)
(* of the source (a template, a message) is a single element holding the   *)
(* literal.  None and a raised exception are the reserved one-element      *)
(* sequences None and Raises, which no string of the model equals.         *)
(***************************************************************************)
EXTENDS Naturals, Sequences, FiniteSets, TLC

VARIABLES
    envKey,          \* os.environ.get("OPENAI_API_KEY"): None or a string
    secretsKey,      \* st.secrets["OPENAI_API_KEY"]: Raises or a string
    fileKey,         \* content of openai_key.txt: Raises (cannot open) or a string
    uploaded,        \* the file_uploader's value: NoUpload or a PDF
    style_choice,    \* the selectbox's value
    custom_prompt,   \* the sidebar text_area's value
    max_pages,       \* the max-pages slider's value
    preview_edit,    \* the user's edit of the prompt text_area, None when untouched
    clicked,         \* st.button's value in the current run
    pc,              \* position of the current script run
    OPENAI_API_KEY,  \* module-level result of load_api_key() in this run
    extraction,      \* record of the extract_text_from_pdf_bytes call of this run
    raw_text,        \* module-level raw_text of this run
    prompt_template, \* module-level prompt_template of this run
    prompt_preview,  \* module-level prompt_preview of this run
    shown,           \* UI elements rendered by this run
    error_text,      \* text of the st.error of the generate handler, None if not shown
    out_text,        \* out_text of this run, None if not assigned
    user_msg,        \* user message of the request of this run, None if none
    apiCalls,        \* chat.completions.create calls made by this run
    prevFailed       \* the previous run ended in the failed-request branch

vars == <<envKey, secretsKey, fileKey, uploaded, style_choice, custom_prompt,
          max_pages, preview_edit, clicked, pc, OPENAI_API_KEY, extraction,
          raw_text, prompt_template, prompt_preview, shown, error_text,
          out_text, user_msg, apiCalls, prevFailed>>

-----------------------------------------------------------------------------
(* Bounds of the model *)

MaxEnvLen == 2
MaxFileLen == 3
MaxPageCount == 3
MaxCustomLen == 2
MaxCalls == 2

-----------------------------------------------------------------------------
(* Python values *)

None == <<"<None>">>
Raises == <<"<raises>">>

SP == " "
NL == "\n"
Whitespace == {SP, NL}

Strings(alphabet, n) == UNION {[1..k -> alphabet] : k \in 0..n}

\* bool(x) of an optional string
Truthy(x) == x # None /\ x # <<>>

RECURSIVE LStrip(_)
LStrip(s) ==
    IF s = <<>> THEN <<>>
    ELSE IF Head(s) \in Whitespace THEN LStrip(Tail(s)) ELSE s

RECURSIVE RStrip(_)
RStrip(s) ==
    IF s = <<>> THEN <<>>
    ELSE IF s[Len(s)] \in Whitespace THEN RStrip(SubSeq(s, 1, Len(s) - 1)) ELSE s

\* str.strip()
Strip(s) == RStrip(LStrip(s))

RECURSIVE Join(_, _)
\* sep.join(chunks)
Join(sep, chunks) ==
    IF chunks = <<>> THEN <<>>
    ELSE IF Len(chunks) = 1 THEN chunks[1]
    ELSE chunks[1] \o sep \o Join(sep, Tail(chunks))

Min(a, b) == IF a < b THEN a ELSE b

-----------------------------------------------------------------------------
(* load_api_key *)

\* Outcome of a block of load_api_key: it returns a value, raises, or falls
\* through to the next statement.
Returned(v) == [kind |-> "return", value |-> v]
Raised == [kind |-> "raise", value |-> None]
FallThrough == [kind |-> "fall", value |-> None]

\* except Exception: pass
ExceptPass(outcome) == IF outcome.kind = "raise" THEN FallThrough ELSE outcome

\* 1) environment variable
EnvBlock(env) == IF Truthy(env) THEN Returned(Strip(env)) ELSE FallThrough

\* 2) body of the try around st.secrets
SecretsBlock(sec) ==
    IF sec = Raises THEN Raised
    ELSE IF Truthy(sec) THEN Returned(Strip(sec)) ELSE FallThrough

\* 3) body of the try around open("openai_key.txt")
FileBlock(file) ==
    IF file = Raises THEN Raised
    ELSE LET k == Strip(file) IN IF Truthy(k) THEN Returned(k) ELSE FallThrough

load_api_key(env, sec, file) ==
    LET b1 == EnvBlock(env)
        b2 == ExceptPass(SecretsBlock(sec))
        b3 == ExceptPass(FileBlock(file))
    IN  IF b1.kind # "fall" THEN b1
        ELSE IF b2.kind # "fall" THEN b2
        ELSE IF b3.kind # "fall" THEN b3
        ELSE Returned(None)

-----------------------------------------------------------------------------
(* extract_text_from_pdf_bytes *)

\* What one library makes of the bytes: whether the document opens
\* (PdfReader(...) / pdfplumber.open(...) and len(pages) succeed) and, per
\* page, what page.extract_text() does: Raises, None or a string.
Path(opens, pages) == [opens |-> opens, pages |-> pages]
Pdf(primary, secondary) == [primary |-> primary, secondary |-> secondary]

\* txt = page.extract_text() or ""
TextOrEmpty(t) == IF Truthy(t) THEN t ELSE <<>>

\* Variant: n = len(pages)
PageLimit_NoCap(pages, cap) == Len(pages)

\* n = min(len(pages), max_pages)
PageLimit(pages, cap) == Min(Len(pages), cap)

RECURSIVE PageLoop(_, _, _, _)
\* for i in range(n): the pages are pages[1..n] here, indices 0..n-1 in Python.
\* acc.chunks is text_chunks, acc.read the pages whose extract_text was called.
PageLoop(pages, n, i, acc) ==
    IF i > n THEN acc
    ELSE IF pages[i] = Raises
         THEN [acc EXCEPT !.read = @ \cup {i}, !.raised = TRUE]
         ELSE LET txt == TextOrEmpty(pages[i])
              IN  PageLoop(pages, n, i + 1,
                           [acc EXCEPT !.read = @ \cup {i},
                                       !.chunks = IF Truthy(Strip(txt))
                                                  THEN Append(@, txt) ELSE @])

\* Body of one try block, started with the text_chunks collected so far.
TryBlock(path, cap, chunks) ==
    LET start == [chunks |-> chunks, read |-> {}, raised |-> FALSE]
    IN  IF ~path.opens THEN [start EXCEPT !.raised = TRUE]
        ELSE PageLoop(path.pages, PageLimit(path.pages, cap), 1, start)

\* Variant: no except clause
ExceptPassPath_Reraise(block) == block

\* except Exception: pass, around an extraction attempt
ExceptPassPath(block) == [block EXCEPT !.raised = FALSE]

\* Variant: the fallback is not guarded
NoChunks_Always(chunks) == TRUE

\* if not text_chunks:
NoChunks(chunks) == chunks = <<>>

NotInvoked(chunks) == [chunks |-> chunks, read |-> {}, raised |-> FALSE]

extract_text_from_pdf_bytes(pdf, cap) ==
    LET p  == TryBlock(pdf.primary, cap, <<>>)
        pc1 == ExceptPassPath(p)
        fallback == ~pc1.raised /\ NoChunks(pc1.chunks)
        s  == IF fallback THEN TryBlock(pdf.secondary, cap, pc1.chunks)
              ELSE NotInvoked(pc1.chunks)
        sc == IF fallback THEN ExceptPassPath(s) ELSE s
        escaped == pc1.raised \/ sc.raised
    IN  [called           |-> TRUE,
         raised           |-> escaped,
         text             |-> IF escaped THEN None
                              ELSE Strip(Join(<<NL, NL>>, sc.chunks)),
         primaryErrored   |-> p.raised,
         primaryRead      |-> p.read,
         secondaryInvoked |-> ~pc1.raised /\ fallback,
         secondaryErrored |-> s.raised,
         secondaryRead    |-> s.read]

NotCalled ==
    [called |-> FALSE, raised |-> FALSE, text |-> None,
     primaryErrored |-> FALSE, primaryRead |-> {},
     secondaryInvoked |-> FALSE, secondaryErrored |-> FALSE, secondaryRead |-> {}]

-----------------------------------------------------------------------------
(* Prompt selection *)

\* TEMPLATES, in insertion order: <<style name, instruction>>
TEMPLATES ==
    << <<"Textbook (concise)", <<"Write a concise textbook-style note for the topic. Use headings and short bullets.">> >>,
       <<"5-mark exam answer", <<"Write a structured 5-mark exam answer: Intro, Etiology/Classification, Mechanism/Pathology, Clinical features/Uses, Management/Steps, High-yield bullets.">> >>,
       <<"10-mark exam answer", <<"Write a structured 10-mark exam answer: Intro, Classification, Detailed Mechanism/Techniques, Indications, Complications, Comparative notes, Summary.">> >>,
       <<"iOS Notes bullets (short)", <<"Write short, punchy iOS Notes-friendly bullets. Keep nesting to max 2 levels.">> >>,
       <<"Pharmacology tabular (plain)", <<"Produce plain-text drug tables: Name, Class, MOA, Uses with mechanism, PK, Adverse effects, Contraindications, Pearls.">> >> >>

\* list(TEMPLATES.keys())
TemplateKeys == [i \in 1..Len(TEMPLATES) |-> TEMPLATES[i][1]]

\* list(TEMPLATES.values())
TemplateValues == [i \in 1..Len(TEMPLATES) |-> TEMPLATES[i][2]]

\* TEMPLATES.get(key, default)
TemplatesGet(key, default) ==
    IF \E i \in 1..Len(TEMPLATES) : TEMPLATES[i][1] = key
    THEN TEMPLATES[CHOOSE i \in 1..Len(TEMPLATES) : TEMPLATES[i][1] = key][2]
    ELSE default

\* Variant: if custom_prompt:
UseCustom_NoStrip(custom) == Truthy(custom)

\* if custom_prompt and custom_prompt.strip():
UseCustom(custom) == Truthy(custom) /\ Truthy(Strip(custom))

ChoosePrompt(style, custom) ==
    IF UseCustom(custom) THEN Strip(custom)
    ELSE TemplatesGet(style, TemplateValues[1])

Suffix == <<NL, NL, "Use the PDF text below as source; do NOT invent facts.">>

\* value= of the prompt text_area
PreviewValue(template) == template \o Suffix

-----------------------------------------------------------------------------
(* The script: one run per user interaction *)

NoUpload == [none |-> TRUE]

\* Variant: if OPENAI_API_KEY is None
KeyMissing_NoneOnly(key) == key = None

\* if not OPENAI_API_KEY:
KeyMissing(key) == ~Truthy(key)

\* if not uploaded:
NotUploaded(u) == u = NoUpload

\* Variant: if raw_text is None
NotText_NoneOnly(text) == text = None

\* if not raw_text:
NotText(text) == ~Truthy(text)

\* What client.chat.completions.create(...) and resp.choices[0].message.content
\* can do: give a content, or raise an exception whose str() is text.
ApiOutcomes ==
    {[ok |-> TRUE,  text |-> <<"# Notes">>],
     [ok |-> FALSE, text |-> <<"Connection error.">>],
     [ok |-> FALSE, text |-> <<"Rate limit reached">>]}

\* f"OpenAI request failed: {e}"
FailureMessage(e) == <<"OpenAI request failed: ">> \o e

\* source_excerpt = raw_text[:40000]
ExcerptLimit == 40000
Excerpt(text) == SubSeq(text, 1, Min(Len(text), ExcerptLimit))

\* user_msg = f"{prompt_preview}\n\nSOURCE:\n{source_excerpt}\n\nConstraints:..."
UserMessage(preview, excerpt) ==
    preview \o <<NL, NL, "SOURCE:", NL>> \o excerpt
            \o <<NL, NL, "Constraints:", NL,
                 "- Use only info from SOURCE. Don't invent facts.", NL,
                 "- Use headings and bullet points where appropriate.">>

\* State of a run that has executed nothing yet.
FreshRun(button) ==
    /\ clicked' = button
    /\ pc' = "load_key"
    /\ OPENAI_API_KEY' = None
    /\ extraction' = NotCalled
    /\ raw_text' = None
    /\ prompt_template' = None
    /\ prompt_preview' = None
    /\ shown' = {}
    /\ error_text' = None
    /\ out_text' = None
    /\ user_msg' = None
    /\ apiCalls' = 0
    /\ prevFailed' = ("error_api" \in shown)

RunOver == pc \in {"done", "stopped", "crashed"}

\* OPENAI_API_KEY = load_api_key(); if not OPENAI_API_KEY: st.warning; st.stop()
LoadKey ==
    /\ pc = "load_key"
    /\ LET r == load_api_key(envKey, secretsKey, fileKey)
       IN  IF r.kind = "raise"
           THEN /\ pc' = "crashed"
                /\ UNCHANGED <<OPENAI_API_KEY, shown>>
           ELSE /\ OPENAI_API_KEY' = r.value
                /\ IF KeyMissing(r.value)
                   THEN /\ shown' = shown \cup {"warning_key"}
                        /\ pc' = "stopped"
                   ELSE /\ shown' = shown
                        /\ pc' = "upload"
    /\ UNCHANGED <<envKey, secretsKey, fileKey, uploaded, style_choice,
                   custom_prompt, max_pages, preview_edit, clicked, extraction,
                   raw_text, prompt_template, prompt_preview, error_text,
                   out_text, user_msg, apiCalls, prevFailed>>

\* client = OpenAI(...); the sidebar; uploaded = st.file_uploader(...);
\* if not uploaded: st.info; st.stop()
SidebarAndUpload ==
    /\ pc = "upload"
    /\ IF NotUploaded(uploaded)
       THEN /\ shown' = shown \cup {"sidebar", "uploader", "info_upload"}
            /\ pc' = "stopped"
       ELSE /\ shown' = shown \cup {"sidebar", "uploader"}
            /\ pc' = "extract"
    /\ UNCHANGED <<envKey, secretsKey, fileKey, uploaded, style_choice,
                   custom_prompt, max_pages, preview_edit, clicked,
                   OPENAI_API_KEY, extraction, raw_text, prompt_template,
                   prompt_preview, error_text, out_text, user_msg, apiCalls, prevFailed>>

\* raw_text = extract_text_from_pdf_bytes(bytes_data, max_pages=max_pages)
\* if not raw_text: st.error; st.stop()
Extract ==
    /\ pc = "extract"
    /\ LET r == extract_text_from_pdf_bytes(uploaded, max_pages)
       IN  /\ extraction' = r
           /\ IF r.raised
              THEN /\ pc' = "crashed"
                   /\ UNCHANGED <<raw_text, shown>>
              ELSE /\ raw_text' = r.text
                   /\ IF NotText(r.text)
                      THEN /\ shown' = shown \cup {"error_extract"}
                           /\ pc' = "stopped"
                      ELSE /\ shown' = shown
                           /\ pc' = "compose"
    /\ UNCHANGED <<envKey, secretsKey, fileKey, uploaded, style_choice,
                   custom_prompt, max_pages, preview_edit, clicked,
                   OPENAI_API_KEY, prompt_template, prompt_preview, error_text,
                   out_text, user_msg, apiCalls, prevFailed>>

\* The prompt choice, the preview text_area and the button's if.
Compose ==
    /\ pc = "compose"
    /\ prompt_template' = ChoosePrompt(style_choice, custom_prompt)
    /\ prompt_preview' = IF preview_edit # None THEN preview_edit
                         ELSE PreviewValue(prompt_template')
    /\ shown' = shown \cup {"prompt_area", "button"}
    /\ pc' = IF clicked THEN "generate" ELSE "done"
    /\ UNCHANGED <<envKey, secretsKey, fileKey, uploaded, style_choice,
                   custom_prompt, max_pages, preview_edit, clicked,
                   OPENAI_API_KEY, extraction, raw_text, error_text, out_text,
                   user_msg, apiCalls, prevFailed>>

\* Variant: a failed request is submitted again instead of being reported
Generate_Retry ==
    /\ pc = "generate"
    /\ apiCalls < MaxCalls
    /\ user_msg' = UserMessage(prompt_preview, Excerpt(raw_text))
    /\ \E outcome \in ApiOutcomes :
          /\ apiCalls' = apiCalls + 1
          /\ IF outcome.ok
             THEN /\ out_text' = outcome.text
                  /\ error_text' = error_text
                  /\ shown' = shown \cup {"success", "notes",
                                          "download_md", "download_txt"}
                  /\ pc' = "done"
             ELSE IF apiCalls + 1 < MaxCalls
             THEN /\ UNCHANGED <<out_text, error_text, shown, pc>>
             ELSE /\ out_text' = out_text
                  /\ error_text' = FailureMessage(outcome.text)
                  /\ shown' = shown \cup {"error_api"}
                  /\ pc' = "stopped"
    /\ UNCHANGED <<envKey, secretsKey, fileKey, uploaded, style_choice,
                   custom_prompt, max_pages, preview_edit, clicked,
                   OPENAI_API_KEY, extraction, raw_text, prompt_template,
                   prompt_preview, prevFailed>>

\* Body of "if st.button(...)": one request, then the notes or the error.
Generate ==
    /\ pc = "generate"
    /\ apiCalls < MaxCalls
    /\ user_msg' = UserMessage(prompt_preview, Excerpt(raw_text))
    /\ \E outcome \in ApiOutcomes :
          /\ apiCalls' = apiCalls + 1
          /\ IF outcome.ok
             THEN /\ out_text' = outcome.text
                  /\ error_text' = error_text
                  /\ shown' = shown \cup {"success", "notes",
                                          "download_md", "download_txt"}
                  /\ pc' = "done"
             ELSE /\ out_text' = out_text
                  /\ error_text' = FailureMessage(outcome.text)
                  /\ shown' = shown \cup {"error_api"}
                  /\ pc' = "stopped"
    /\ UNCHANGED <<envKey, secretsKey, fileKey, uploaded, style_choice,
                   custom_prompt, max_pages, preview_edit, clicked,
                   OPENAI_API_KEY, extraction, raw_text, prompt_template,
                   prompt_preview, prevFailed>>

-----------------------------------------------------------------------------
(* The user's interactions; each one reruns the script from the top *)

\* A page's text, marked with the library (p: pypdf, q: pdfplumber) and the
\* page number, with surrounding whitespace as extract_text() returns it.
PageText(lib, i) == <<NL, lib \o ToString(i), SP>>

\* What extract_text() can do on page i.
PageOutcomes(lib, i) == {Raises, None, <<SP>>, PageText(lib, i)}

PageSeqs(lib, n) ==
    UNION {{pages \in [1..k -> {Raises, None, <<SP>>} \cup {PageText(lib, j) : j \in 1..n}] :
               \A i \in 1..k : pages[i] \in PageOutcomes(lib, i)} : k \in 0..n}

Paths(lib, n) == {Path(FALSE, <<>>)} \cup {Path(TRUE, pages) : pages \in PageSeqs(lib, n)}

\* Every document of at most n pages per library.
Pdfs(n) == {Pdf(p, q) : p \in Paths("p", n), q \in Paths("q", n)}

DigitalPdf ==
    Pdf(Path(TRUE, <<PageText("p", 1), PageText("p", 2)>>),
        Path(TRUE, <<PageText("q", 1), PageText("q", 2)>>))
ScannedPdf == Pdf(Path(TRUE, <<None, <<SP>> >>), Path(TRUE, <<None, None>>))
PlumberOnlyPdf == Pdf(Path(FALSE, <<>>), Path(TRUE, <<PageText("q", 1)>>))
BrokenPdf == Pdf(Path(FALSE, <<>>), Path(FALSE, <<>>))
PartialPdf ==
    Pdf(Path(TRUE, <<PageText("p", 1), Raises>>),
        Path(TRUE, <<PageText("q", 1), PageText("q", 2)>>))

SampleDocs == {DigitalPdf, ScannedPdf, PlumberOnlyPdf, BrokenPdf, PartialPdf}

\* st.slider("Max pages ...", 1, 200, 20)
SliderMin == 1
SliderDefault == 20

CustomTexts == Strings({SP, "c"}, MaxCustomLen)

\* The user's text replacing the preview.
EditedPreview == <<"Summarise in three bullets.">>

\* The preview text_area is rebuilt, and the user's edit lost, when its
\* value= changes.
KeepEdit(style, custom) ==
    IF ChoosePrompt(style, custom) = ChoosePrompt(style_choice, custom_prompt)
    THEN preview_edit ELSE None

\* Opening or reloading the page: a new session with the widgets' defaults.
ReloadPage ==
    /\ RunOver
    /\ uploaded' = NoUpload
    /\ style_choice' = TemplateKeys[1]
    /\ custom_prompt' = <<>>
    /\ max_pages' = SliderDefault
    /\ preview_edit' = None
    /\ FreshRun(FALSE)
    /\ UNCHANGED <<envKey, secretsKey, fileKey>>

UploadFile ==
    /\ RunOver
    /\ "uploader" \in shown
    /\ \E d \in SampleDocs \cup {NoUpload} :
          /\ d # uploaded
          /\ uploaded' = d
    /\ FreshRun(FALSE)
    /\ UNCHANGED <<envKey, secretsKey, fileKey, style_choice, custom_prompt,
                   max_pages, preview_edit>>

SelectStyle ==
    /\ RunOver
    /\ "sidebar" \in shown
    /\ \E k \in 1..Len(TemplateKeys) :
          /\ TemplateKeys[k] # style_choice
          /\ style_choice' = TemplateKeys[k]
          /\ preview_edit' = KeepEdit(TemplateKeys[k], custom_prompt)
    /\ FreshRun(FALSE)
    /\ UNCHANGED <<envKey, secretsKey, fileKey, uploaded, custom_prompt, max_pages>>

EditCustomPrompt ==
    /\ RunOver
    /\ "sidebar" \in shown
    /\ \E c \in CustomTexts :
          /\ c # custom_prompt
          /\ custom_prompt' = c
          /\ preview_edit' = KeepEdit(style_choice, c)
    /\ FreshRun(FALSE)
    /\ UNCHANGED <<envKey, secretsKey, fileKey, uploaded, style_choice, max_pages>>

SlideMaxPages ==
    /\ RunOver
    /\ "sidebar" \in shown
    /\ \E m \in {SliderMin, SliderDefault} :
          /\ m # max_pages
          /\ max_pages' = m
    /\ FreshRun(FALSE)
    /\ UNCHANGED <<envKey, secretsKey, fileKey, uploaded, style_choice,
                   custom_prompt, preview_edit>>

EditPreview ==
    /\ RunOver
    /\ "prompt_area" \in shown
    /\ preview_edit = None
    /\ preview_edit' = EditedPreview
    /\ FreshRun(FALSE)
    /\ UNCHANGED <<envKey, secretsKey, fileKey, uploaded, style_choice,
                   custom_prompt, max_pages>>

ClickGenerate ==
    /\ RunOver
    /\ "button" \in shown
    /\ FreshRun(TRUE)
    /\ UNCHANGED <<envKey, secretsKey, fileKey, uploaded, style_choice,
                   custom_prompt, max_pages, preview_edit>>

\* openai_key.txt is created, rewritten or removed between two runs.
RunKeyFiles == {Raises, <<"k", NL>>}

ChangeKeyFile ==
    /\ RunOver
    /\ \E f \in RunKeyFiles :
          /\ f # fileKey
          /\ fileKey' = f
    /\ UNCHANGED <<envKey, secretsKey, uploaded, style_choice, custom_prompt,
                   max_pages, preview_edit, clicked, pc, OPENAI_API_KEY,
                   extraction, raw_text, prompt_template, prompt_preview, shown,
                   error_text, out_text, user_msg, apiCalls, prevFailed>>

-----------------------------------------------------------------------------
(* Specifications *)

\* Run state before the first statement of the script.
AtTop ==
    /\ clicked = FALSE
    /\ pc = "load_key"
    /\ OPENAI_API_KEY = None
    /\ extraction = NotCalled
    /\ raw_text = None
    /\ prompt_template = None
    /\ prompt_preview = None
    /\ shown = {}
    /\ error_text = None
    /\ out_text = None
    /\ user_msg = None
    /\ apiCalls = 0
    /\ prevFailed = FALSE

DefaultWidgets ==
    /\ uploaded = NoUpload
    /\ style_choice = TemplateKeys[1]
    /\ custom_prompt = <<>>
    /\ max_pages = SliderDefault
    /\ preview_edit = None

\* The page is opened in some environment.
Init ==
    /\ envKey \in {None, <<SP>>, <<"k">>}
    /\ secretsKey \in {Raises, <<"k">>}
    /\ fileKey \in RunKeyFiles
    /\ DefaultWidgets
    /\ AtTop

Next ==
    \/ LoadKey
    \/ SidebarAndUpload
    \/ Extract
    \/ Compose
    \/ Generate
    \/ ReloadPage
    \/ UploadFile
    \/ SelectStyle
    \/ EditCustomPrompt
    \/ SlideMaxPages
    \/ EditPreview
    \/ ClickGenerate
    \/ ChangeKeyFile

Spec == Init /\ [][Next]_vars

\* One run of the script over every value its inputs can have at its start:
\* the key sources, the widgets' values and the button's.
InitRun ==
    /\ envKey \in {None, <<SP>>, <<"k">>}
    /\ secretsKey \in {Raises, <<"k">>}
    /\ fileKey \in RunKeyFiles
    /\ uploaded \in SampleDocs \cup {NoUpload}
    /\ style_choice \in {TemplateKeys[k] : k \in 1..Len(TemplateKeys)}
    /\ custom_prompt \in CustomTexts
    /\ max_pages \in {SliderMin, SliderDefault}
    /\ preview_edit \in {None, EditedPreview}
    /\ clicked \in BOOLEAN
    /\ pc = "load_key"
    /\ OPENAI_API_KEY = None
    /\ extraction = NotCalled
    /\ raw_text = None
    /\ prompt_template = None
    /\ prompt_preview = None
    /\ shown = {}
    /\ error_text = None
    /\ out_text = None
    /\ user_msg = None
    /\ apiCalls = 0
    /\ prevFailed = FALSE

NextRun ==
    \/ LoadKey
    \/ SidebarAndUpload
    \/ Extract
    \/ Compose
    \/ Generate

SpecRun == InitRun /\ [][NextRun]_vars

\* load_api_key over every combination of its three sources.
KeyValues(n) == Strings({SP, NL, "k"}, n)

InitKey ==
    /\ envKey \in {None} \cup KeyValues(MaxEnvLen)
    /\ secretsKey \in {Raises} \cup KeyValues(MaxEnvLen)
    /\ fileKey \in {Raises} \cup KeyValues(MaxFileLen)
    /\ DefaultWidgets
    /\ AtTop

SpecKey == InitKey /\ [][LoadKey]_vars

\* extract_text_from_pdf_bytes over every document and page cap.
InitExtract ==
    /\ envKey = <<"k">>
    /\ secretsKey = Raises
    /\ fileKey = Raises
    /\ uploaded \in Pdfs(MaxPageCount)
    /\ style_choice = TemplateKeys[1]
    /\ custom_prompt = <<>>
    /\ max_pages \in SliderMin..(MaxPageCount + 1)
    /\ preview_edit = None
    /\ clicked = FALSE
    /\ pc = "extract"
    /\ OPENAI_API_KEY = <<"k">>
    /\ extraction = NotCalled
    /\ raw_text = None
    /\ prompt_template = None
    /\ prompt_preview = None
    /\ shown = {"sidebar", "uploader"}
    /\ error_text = None
    /\ out_text = None
    /\ user_msg = None
    /\ apiCalls = 0
    /\ prevFailed = FALSE

SpecExtract == InitExtract /\ [][Extract]_vars

\* The prompt choice over every style, listed or not, and custom text.
UnlistedStyle == "Unlisted style"

InitCompose ==
    /\ envKey = <<"k">>
    /\ secretsKey = Raises
    /\ fileKey = Raises
    /\ uploaded = DigitalPdf
    /\ style_choice \in {TemplateKeys[k] : k \in 1..Len(TemplateKeys)} \cup {UnlistedStyle}
    /\ custom_prompt \in {None} \cup Strings({SP, NL, "c"}, MaxCustomLen)
    /\ max_pages = SliderDefault
    /\ preview_edit \in {None, EditedPreview}
    /\ clicked \in BOOLEAN
    /\ pc = "compose"
    /\ OPENAI_API_KEY = <<"k">>
    /\ extraction = extract_text_from_pdf_bytes(DigitalPdf, SliderDefault)
    /\ raw_text = extraction.text
    /\ prompt_template = None
    /\ prompt_preview = None
    /\ shown = {"sidebar", "uploader"}
    /\ error_text = None
    /\ out_text = None
    /\ user_msg = None
    /\ apiCalls = 0
    /\ prevFailed = FALSE

SpecCompose == InitCompose /\ [][Compose]_vars

-----------------------------------------------------------------------------
(* Properties *)

ResultElements == {"success", "notes", "download_md", "download_txt"}

\* C1: a request is submitted in a run only if the text extracted in that run
\* is non-empty; with an empty text the run shows the extraction error and
\* stops without a request, whether or not the button was clicked.
C1_RequestOnlyWithText ==
    /\ (apiCalls > 0 \/ pc = "generate") =>
          /\ extraction.called
          /\ raw_text = extraction.text
          /\ Len(extraction.text) > 0
    /\ (extraction.called /\ extraction.text = <<>>) =>
          /\ pc = "stopped"
          /\ "error_extract" \in shown
          /\ apiCalls = 0
          /\ user_msg = None

C1_Witness ==
    /\ clicked
    /\ extraction.called
    /\ extraction.text = <<>>
    /\ pc = "stopped"
    /\ "error_extract" \in shown

\* C2: a run in which load_api_key returned None or the empty string stops
\* with the key-missing warning before the uploader, the extraction and the
\* request.
C2_NoKeyHalts ==
    (pc # "load_key" /\ OPENAI_API_KEY \in {None, <<>>}) =>
        /\ pc = "stopped"
        /\ shown = {"warning_key"}
        /\ ~extraction.called
        /\ apiCalls = 0

C2_Witness ==
    /\ pc = "stopped"
    /\ OPENAI_API_KEY = <<>>
    /\ shown = {"warning_key"}
    /\ uploaded # NoUpload
    /\ clicked

\* C3: a failed request shows the error with the exception's message, shows
\* no notes and no download, is the only request of its run, and leaves the
\* page with the document, its text and the button, so that a further click
\* is possible; every clicked run that has text makes exactly one request.
C3_FailureIsReportedOnce ==
    /\ apiCalls <= 1
    /\ error_text # None =>
          /\ pc = "stopped"
          /\ apiCalls = 1
          /\ "error_api" \in shown
          /\ \E o \in ApiOutcomes : ~o.ok /\ error_text = FailureMessage(o.text)
          /\ shown \cap ResultElements = {}
          /\ out_text = None
          /\ uploaded # NoUpload
          /\ Len(raw_text) > 0
          /\ "button" \in shown
          /\ ENABLED ClickGenerate
    /\ (RunOver /\ clicked /\ extraction.called /\ Len(extraction.text) > 0) =>
          apiCalls = 1

\* A request that failed in the run of a click that followed a failed request.
C3_Witness ==
    /\ prevFailed
    /\ clicked
    /\ apiCalls = 1
    /\ error_text # None

\* A page's text that is kept as a fragment: if txt.strip()
NonBlank(t) == t # Raises /\ t # None /\ \E k \in 1..Len(t) : t[k] \notin Whitespace

\* Pages 1..n of a path that can be read: up to the page cap and up to the
\* first page whose extract_text raises.
Readable(path, cap) ==
    IF ~path.opens THEN {}
    ELSE {i \in 1..Len(path.pages) :
             /\ i <= cap
             /\ \A j \in 1..(i - 1) : path.pages[j] # Raises}

\* The path collects at least one fragment.
Collects(path, cap) ==
    \E i \in Readable(path, cap) : NonBlank(path.pages[i])

\* The path raises: on opening, or on a page within the cap.
PathRaises(path, cap) ==
    \/ ~path.opens
    \/ \E i \in 1..Len(path.pages) : i <= cap /\ path.pages[i] = Raises

\* C4: the pdfplumber path is invoked exactly when the pypdf path collected
\* no fragment; when pypdf collected one, no pdfplumber page is read.
C4_FallbackOnlyOnZeroFragments ==
    extraction.called =>
        /\ extraction.secondaryInvoked <=> ~Collects(uploaded.primary, max_pages)
        /\ Collects(uploaded.primary, max_pages) => extraction.secondaryRead = {}

C4_Witness ==
    /\ extraction.called
    /\ Collects(uploaded.primary, max_pages)
    /\ Collects(uploaded.secondary, max_pages)
    /\ ~extraction.secondaryInvoked

IsPrimaryText(c) == \E j \in 1..(MaxPageCount + 1) : c = "p" \o ToString(j)

\* C5: whenever the pypdf path raises, on opening or at any page of its
\* loop, the attempt counts as no text (nothing of it is in the result) and
\* the pdfplumber path is attempted.
C5_PrimaryErrorFallsBack ==
    (extraction.called /\ PathRaises(uploaded.primary, max_pages)) =>
        /\ extraction.secondaryInvoked
        /\ \A k \in 1..Len(extraction.text) : ~IsPrimaryText(extraction.text[k])

\* C6: the call never raises, and returns the empty string when neither path
\* collects a fragment.
C6_NeverRaises ==
    extraction.called =>
        /\ ~extraction.raised
        /\ pc # "crashed"
        /\ (~Collects(uploaded.primary, max_pages)
              /\ ~Collects(uploaded.secondary, max_pages)) => extraction.text = <<>>

C6_Witness ==
    /\ extraction.called
    /\ extraction.primaryErrored
    /\ extraction.secondaryErrored
    /\ extraction.text = <<>>
    /\ Len(uploaded.primary.pages) > 1

\* The fragments of the pages a path reads, in page order.
RECURSIVE FragmentsFrom(_, _, _)
FragmentsFrom(path, cap, i) ==
    IF i \notin Readable(path, cap) THEN <<>>
    ELSE (IF NonBlank(path.pages[i]) THEN <<path.pages[i]>> ELSE <<>>)
            \o FragmentsFrom(path, cap, i + 1)

Fragments(path, cap) == FragmentsFrom(path, cap, 1)

CapOf(path, cap) == IF Len(path.pages) < cap THEN Len(path.pages) ELSE cap

IsTextBeyond(c, cap) ==
    \E j \in (cap + 1)..(MaxPageCount + 1) : c \in {"p" \o ToString(j), "q" \o ToString(j)}

\* C7: on both paths only pages below min(page_count, max_pages) are read (all
\* of them when the path does not raise); the result is the fragments of the
\* pages read, in page order, joined by a blank line and trimmed; no text of
\* a page at max_pages or beyond is in it.
C7_PageCap ==
    extraction.called =>
        /\ extraction.primaryRead \subseteq 1..CapOf(uploaded.primary, max_pages)
        /\ extraction.secondaryRead \subseteq 1..CapOf(uploaded.secondary, max_pages)
        /\ ~PathRaises(uploaded.primary, max_pages) =>
              extraction.primaryRead = 1..CapOf(uploaded.primary, max_pages)
        /\ (extraction.secondaryInvoked /\ ~PathRaises(uploaded.secondary, max_pages)) =>
              extraction.secondaryRead = 1..CapOf(uploaded.secondary, max_pages)
        /\ extraction.text =
              Strip(Join(<<NL, NL>>,
                         IF Collects(uploaded.primary, max_pages)
                         THEN Fragments(uploaded.primary, max_pages)
                         ELSE Fragments(uploaded.secondary, max_pages)))
        /\ \A k \in 1..Len(extraction.text) : ~IsTextBeyond(extraction.text[k], max_pages)

C7_Witness ==
    /\ extraction.called
    /\ Len(uploaded.primary.pages) > max_pages
    /\ NonBlank(uploaded.primary.pages[max_pages + 1])
    /\ max_pages > 1
    /\ Len(Fragments(uploaded.primary, max_pages)) = max_pages
    /\ Len(extraction.text) > 0

\* A source holds a key: it is there and not blank.
HoldsKey(v) == v # None /\ v # Raises /\ Strip(v) # <<>>

\* C8: load_api_key never raises; it returns the trimmed value of the first
\* of environment, secrets, file that holds a non-empty value, and no key
\* (None, or the empty string the caller treats alike) exactly when none does.
C8_FirstNonEmptySource ==
    pc # "load_key" =>
        /\ pc # "crashed"
        /\ IF HoldsKey(envKey) THEN OPENAI_API_KEY = Strip(envKey)
           ELSE IF HoldsKey(secretsKey) THEN OPENAI_API_KEY = Strip(secretsKey)
           ELSE IF HoldsKey(fileKey) THEN OPENAI_API_KEY = Strip(fileKey)
           ELSE OPENAI_API_KEY \in {None, <<>>}

RECURSIVE UpToNewline(_)
UpToNewline(s) ==
    IF s = <<>> \/ Head(s) = NL THEN <<>> ELSE <<Head(s)>> \o UpToNewline(Tail(s))

\* The first non-blank line of a text, trimmed.
FirstNonBlankLine(s) == Strip(UpToNewline(LStrip(s)))

\* C9: a key resolved from openai_key.txt is the first non-blank line of the
\* file, whatever the file holds.
C9_FileFirstLine ==
    (/\ pc # "load_key"
     /\ ~Truthy(envKey)
     /\ (secretsKey = Raises \/ ~Truthy(secretsKey))
     /\ HoldsKey(fileKey)) =>
        OPENAI_API_KEY = FirstNonBlankLine(fileKey)

IsCatalogText(c) == \E i \in 1..Len(TEMPLATES) : <<c>> = TEMPLATES[i][2]

\* C10: a custom text that is not blank is the template, trimmed, and no
\* catalog text is used; otherwise the template is the selected style's
\* entry, or the first entry for a style that is not listed; the text area's
\* value is the template followed by the fixed suffix.
C10_PromptChoice ==
    pc # "compose" =>
        /\ IF custom_prompt # None /\ \E k \in 1..Len(custom_prompt) :
                                          custom_prompt[k] \notin Whitespace
           THEN /\ prompt_template = Strip(custom_prompt)
                /\ \A k \in 1..Len(prompt_template) : ~IsCatalogText(prompt_template[k])
           ELSE \/ \E i \in 1..Len(TEMPLATES) :
                      /\ TEMPLATES[i][1] = style_choice
                      /\ prompt_template = TEMPLATES[i][2]
                \/ /\ \A i \in 1..Len(TEMPLATES) : TEMPLATES[i][1] # style_choice
                   /\ prompt_template = TEMPLATES[1][2]
        /\ preview_edit = None =>
              /\ Len(prompt_preview) = Len(prompt_template) + Len(Suffix)
              /\ SubSeq(prompt_preview, 1, Len(prompt_template)) = prompt_template
              /\ SubSeq(prompt_preview, Len(prompt_template) + 1, Len(prompt_preview)) = Suffix

C10_Witness ==
    /\ pc # "compose"
    /\ style_choice = TemplateKeys[2]
    /\ custom_prompt = <<SP, "c">>
    /\ prompt_preview = <<"c">> \o Suffix

====
